---- MODULE Spec2Model ----
(***************************************************************************)
(* Model of the progress / XP / streak accrual and question selection of   *)
(* the learning platform's server (src/server.js, src/db.js).              *)
(*                                                                         *)
(* The state is the three Mongo collections the topic, lesson and profile  *)
(* endpoints touch (users, Progress, Question), the wall clock, and the    *)
(* request being served with the response sent for it, until the client    *)
(* has received it.  A request is served either in one piece (req,         *)
(* response) or, where the order of its steps or the interleaving with     *)
(* other requests matters, step by step (handlers, signups).               *)
(* Requests are served one at a time.  Optional JSON fields are modelled   *)
(* as options: <<>> is an absent field (undefined), <<v>> a present one.   *)
(***************************************************************************)
EXTENDS Integers, Sequences, FiniteSets, TLC

VARIABLES
    users,        \* usersModel collection: user id -> aggregate fields
    progress,     \* Progress collection, in insertion order
    createTopic,  \* topic handed to each Progress.create call (history)
    questions,    \* Question collection: set of [id, topic]
    now,          \* wall clock, in ticks
    strictQuery,  \* whether the installed Mongoose strips unknown filter paths
    req,          \* request whose response is in flight, or NoRequest
    response,     \* response in flight, or NoResponse
    handlers,     \* requests served step by step, in the order they arrived
    accounts,     \* email and username of the documents created by signup
    signups       \* signup requests served step by step

vars == <<users, progress, createTopic, questions, now, strictQuery, req, response,
          handlers, accounts, signups>>

\* what the requests served in one piece leave alone
stepVars == <<handlers, accounts, signups>>

----------------------------------------------------------------------------
(* Bounds of the finite model *)

TicksPerDay == 2        \* clock ticks per calendar day
MaxClock == 2           \* last clock tick explored
MaxProgress == 1        \* Progress records written in one run of Spec
AccrualProgress == 2    \* ... of AccrualSpec
SelectProgress == 2     \* ... of SelectSpec
ScenarioProgress == 3   \* ... of ScenarioSpec
ValidationProgress == 1 \* ... of ValidationSpec
LessonProgress == 2     \* ... of LessonSpec
StreakProgress == 2     \* ... of StreakSpec
ProfileProgress == 2    \* ... of ProfileSpec
CaseProgress == 1       \* ... of CaseSpec
SeedProgress == 1       \* ... of SeedSpec
StreakClock == 4        \* last clock tick explored by StreakSpec
StepHandlers == 1       \* requests served in one run of StepSpec
RaceHandlers == 2       \* ... of RaceSpec
StreakRaceHandlers == 4 \* ... of StreakRaceSpec
IsolationProgress == 2  \* Progress records written in one run of IsolationSpec
SignupHandlers == 3     \* requests served in one run of SignupSpec

----------------------------------------------------------------------------
(* Values *)

None == <<>>
Some(v) == <<v>>
Val(o) == o[1]

NoDate == -1            \* lastProgressDate: null

UserIds == {"u1", "u2"}

\* topics list of initializeQuestions, cut to three of its twenty entries
Topics == <<"magnetism", "electricity", "waves">>

\* number of entries of topicTemplates[topic]; a topic without a key has none
TopicTemplates(topic) ==
    CASE topic = "magnetism" -> 3
      [] topic = "electricity" -> 2
      [] OTHER -> 0

\* `${topic}-q${n}`
QuestionId(topic, n) == <<topic, n>>

\* the path segment used as it was sent
ToLowerCase_Identity(s) == s

\* String.prototype.toLowerCase on the path segments the clients send
ToLowerCase(s) ==
    CASE s = "Electricity" -> "electricity"
      [] s = "Magnetism" -> "magnetism"
      [] OTHER -> s

\* totalQuestions of the topic endpoint
TotalQuestions == 10

\* new usersModel document: schema defaults of the aggregate fields and of
\* the avatar
NewUser ==
    [streak |-> 0, dailyXP |-> 0, totalXP |-> 0, lastProgressDate |-> NoDate,
     avatar |-> ""]

\* paths of usersSchema that the model keeps
UserPaths == {"streak", "dailyXP", "totalXP", "lastProgressDate", "avatar"}

\* paths of progressSchema
ProgressPaths ==
    {"userId", "questionId", "xp", "isCorrect", "brains", "userAnswer", "timestamp"}

\* a JSON value of a type that the schema of its field does not accept
WrongType == <<"value", "of", "wrong type">>

NoRequest == [kind |-> "none"]
NoResponse == [status |-> 0, path |-> "", completed |-> FALSE, id |-> None, totalXp |-> 0]

----------------------------------------------------------------------------
(* Mongoose *)

\* strict schema: a document keeps only the paths its schema declares
ApplySchema(doc, paths) == [k \in (DOMAIN doc) \cap paths |-> doc[k]]

\* Query casting: with strictQuery the filter loses the paths the schema
\* does not declare; without it they are sent to MongoDB as they are
CastFilter(filter, paths) ==
    IF strictQuery THEN [k \in (DOMAIN filter) \cap paths |-> filter[k]] ELSE filter

\* MongoDB equality match: every filter path is present and equal
Matches(doc, filter) ==
    \A k \in DOMAIN filter : k \in DOMAIN doc /\ doc[k] = filter[k]

\* the query without its userId condition
DistinctQuestionIds_AnyUser(coll, filter) ==
    LET f == CastFilter([k \in (DOMAIN filter) \ {"userId"} |-> filter[k]], ProgressPaths)
    IN  {coll[i].questionId : i \in {j \in DOMAIN coll : Matches(coll[j], f)}}

\* Progress.find(filter).distinct('questionId') over a collection
DistinctQuestionIds(coll, filter) ==
    LET f == CastFilter(filter, ProgressPaths)
    IN  {coll[i].questionId : i \in {j \in DOMAIN coll : Matches(coll[j], f)}}

\* Question.find({ topic })
FindQuestions(topic) == {q \in questions : q.topic = topic}

\* Progress.create(doc) that stores nothing
InsertProgress_Discard(coll, doc) == coll

\* Progress.create(doc) that replaces the collection by the new document
InsertProgress_Overwrite(coll, doc) == <<doc>>

\* Progress.create(doc): the document is added to the collection
InsertProgress(coll, doc) == Append(coll, doc)

----------------------------------------------------------------------------
(* Dates *)

\* Date.prototype.setHours(0, 0, 0, 0): local midnight of the instant
SetHoursZero(t) == (t \div TicksPerDay) * TicksPerDay

DayOf(t) == t \div TicksPerDay

----------------------------------------------------------------------------
(* The topic endpoint *)

\* the issues without the minimum of questionNumber
ValidationIssues_NoNumberMin(body) ==
    {f \in {"xp", "brains", "questionId", "userAnswer", "questionNumber"} :
        body[f] = WrongType}
    \cup (IF body.isCorrect \in {"true", "false", "null"} THEN {} ELSE {"isCorrect"})

\* parsed.error.issues: the paths of the fields progressValidation rejects.
\* isCorrect must be a boolean or null, the other fields may be absent,
\* questionNumber must not be negative
ValidationIssues(body) ==
    {f \in {"xp", "brains", "questionId", "userAnswer", "questionNumber"} :
        body[f] = WrongType}
    \cup (IF body.isCorrect \in {"true", "false", "null"} THEN {} ELSE {"isCorrect"})
    \cup (IF body.questionNumber \notin {None, WrongType} /\ Val(body.questionNumber) < 0
          THEN {"questionNumber"} ELSE {})

\* progressValidation.safeParse(req.body).success
ProgressValidation(body) == ValidationIssues(body) = {}

\* no recording once the session is complete
IsRecorded_NotAtSessionEnd(body) ==
    /\ body.isCorrect # "null"
    /\ body.questionId # None
    /\ (body.questionNumber = None \/ Val(body.questionNumber) < 10)

\* the skip test without its questionId half
IsRecorded_NoQuestionIdTest(body) == body.isCorrect # "null"

\* isCorrect !== null && questionId
IsRecorded(body) == body.isCorrect # "null" /\ body.questionId # None

\* every recorded answer counted as correct
IsCorrectAnswer_AnyVerdict(body) == TRUE

\* if (isCorrect)
IsCorrectAnswer(body) == body.isCorrect = "true"

\* the day comparison with <= in place of <
IsNewDay_SameDayIncluded(user, today) ==
    user.lastProgressDate = NoDate \/ SetHoursZero(user.lastProgressDate) <= today

\* !user.lastProgressDate || new Date(user.lastProgressDate).setHours(0,0,0,0) < today.getTime()
IsNewDay(user, today) ==
    user.lastProgressDate = NoDate \/ SetHoursZero(user.lastProgressDate) < today

\* totalXP left as it was
UpdateAggregate_NoTotal(user, xp, today, saveTime) ==
    LET rolled ==
            IF IsNewDay(user, today)
            THEN [user EXCEPT !.streak = user.streak + 1, !.dailyXP = xp]
            ELSE [user EXCEPT !.dailyXP = user.dailyXP + xp]
    IN  [rolled EXCEPT !.lastProgressDate = saveTime]

\* dailyXP accumulated on a new day instead of reset
UpdateAggregate_NoDailyReset(user, xp, today, saveTime) ==
    LET rolled ==
            IF IsNewDay(user, today)
            THEN [user EXCEPT !.streak = user.streak + 1, !.dailyXP = user.dailyXP + xp]
            ELSE [user EXCEPT !.dailyXP = user.dailyXP + xp]
    IN  [rolled EXCEPT !.totalXP = user.totalXP + xp, !.lastProgressDate = saveTime]

\* lastProgressDate left as it was
UpdateAggregate_NoDateStamp(user, xp, today, saveTime) ==
    LET rolled ==
            IF IsNewDay(user, today)
            THEN [user EXCEPT !.streak = user.streak + 1, !.dailyXP = xp]
            ELSE [user EXCEPT !.dailyXP = user.dailyXP + xp]
    IN  [rolled EXCEPT !.totalXP = user.totalXP + xp]

\* the user document after the aggregate update; today is the midnight of
\* the first clock read, saveTime the second clock read
UpdateAggregate(user, xp, today, saveTime) ==
    LET rolled ==
            IF IsNewDay(user, today)
            THEN [user EXCEPT !.streak = user.streak + 1, !.dailyXP = xp]
            ELSE [user EXCEPT !.dailyXP = user.dailyXP + xp]
    IN  [rolled EXCEPT !.totalXP = user.totalXP + xp, !.lastProgressDate = saveTime]

\* the filter without the reset
AvailableQuestions_NoReset(found, answered) == {q \in found : q.id \notin answered}

\* questions.filter(q => !answeredQuestions.includes(q.id)), reset when empty
AvailableQuestions(found, answered) ==
    LET unanswered == {q \in found : q.id \notin answered}
    IN  IF unanswered = {} THEN found ELSE unanswered

ErrorResponse(status, path) ==
    [status |-> status, path |-> path, completed |-> FALSE, id |-> None, totalXp |-> 0]

CompletedResponse(xp) ==
    [status |-> 200, path |-> "", completed |-> TRUE, id |-> None,
     totalXp |-> IF xp = None THEN 0 ELSE Val(xp)]

QuestionResponse(q) ==
    [status |-> 200, path |-> "", completed |-> FALSE, id |-> Some(q.id), totalXp |-> 0]

\* the session test with > in place of >=
SessionCompleted_Strict(questionNumber) == questionNumber > TotalQuestions

\* questionNumber >= totalQuestions
SessionCompleted(questionNumber) == questionNumber >= TotalQuestions

\* const { ..., questionNumber = 0 } = req.body
QuestionNumber(body) == IF body.questionNumber = None THEN 0 ELSE Val(body.questionNumber)

\* the selection with the session test ahead of the question lookup
SelectResponses_SessionFirst(userId, topic, body, coll) ==
    LET found == FindQuestions(topic)
        answered == DistinctQuestionIds(coll, [userId |-> userId, topic |-> topic])
        available == AvailableQuestions(found, answered)
    IN  IF SessionCompleted(QuestionNumber(body)) THEN {CompletedResponse(body.xp)}
        ELSE IF found = {} THEN {ErrorResponse(404, "questions")}
        ELSE IF available = {} THEN {ErrorResponse(500, "server")}
        ELSE {QuestionResponse(q) : q \in available}

\* the selection without the empty-topic test
SelectResponses_NoNotFound(userId, topic, body, coll) ==
    LET found == FindQuestions(topic)
        answered == DistinctQuestionIds(coll, [userId |-> userId, topic |-> topic])
        available == AvailableQuestions(found, answered)
    IN  IF SessionCompleted(QuestionNumber(body)) THEN {CompletedResponse(body.xp)}
        ELSE IF available = {} THEN {ErrorResponse(500, "server")}
        ELSE {QuestionResponse(q) : q \in available}

\* the responses the selection part can send, given the Progress collection
\* as the recording part left it; a selection from no question at all
\* throws and is answered by the catch block
SelectResponses(userId, topic, body, coll) ==
    LET found == FindQuestions(topic)
        answered == DistinctQuestionIds(coll, [userId |-> userId, topic |-> topic])
        available == AvailableQuestions(found, answered)
    IN  IF found = {} THEN {ErrorResponse(404, "questions")}
        ELSE IF SessionCompleted(QuestionNumber(body)) THEN {CompletedResponse(body.xp)}
        ELSE IF available = {} THEN {ErrorResponse(500, "server")}
        ELSE {QuestionResponse(q) : q \in available}

Request(userId, topicParam, body) ==
    [kind |-> "topic", userId |-> userId, topic |-> topicParam, body |-> body]

\* the handler of app.post('/api/topic/:topic'), from the validation to the
\* response: dt is the time that passes between the handler's two clock
\* reads.  A rejected body is answered with the list of its issues, of
\* which the response of the model carries one
TopicEffect(userId, topicParam, body, dt) ==
    LET topic == ToLowerCase(topicParam)
        today == SetHoursZero(now)
        saveTime == now + dt
        doc == ApplySchema([userId |-> userId, questionId |-> body.questionId,
                            xp |-> body.xp, isCorrect |-> body.isCorrect,
                            brains |-> body.brains, userAnswer |-> body.userAnswer,
                            topic |-> topic, timestamp |-> now], ProgressPaths)
        coll == IF IsRecorded(body) THEN InsertProgress(progress, doc) ELSE progress
    IN  /\ UNCHANGED <<questions, strictQuery>>
        /\ IF ~ProgressValidation(body)
           THEN /\ dt = 0
                /\ response' \in {ErrorResponse(400, path) : path \in ValidationIssues(body)}
                /\ UNCHANGED <<users, progress, createTopic, now>>
           ELSE /\ progress' = coll
                /\ createTopic' = IF IsRecorded(body) THEN Append(createTopic, topic)
                                  ELSE createTopic
                /\ IF IsRecorded(body) /\ IsCorrectAnswer(body)
                   THEN /\ now' = saveTime
                        /\ IF body.xp = None
                           THEN \* totalXP becomes NaN and user.save() rejects
                                /\ response' = ErrorResponse(500, "server")
                                /\ UNCHANGED users
                           ELSE /\ users' = [users EXCEPT ![userId] =
                                        UpdateAggregate(users[userId], Val(body.xp), today, saveTime)]
                                /\ response' \in SelectResponses(userId, topic, body, coll)
                   ELSE /\ dt = 0
                        /\ UNCHANGED <<users, now>>
                        /\ response' \in SelectResponses(userId, topic, body, coll)

\* app.post('/api/topic/:topic')
TopicPost(userId, topicParam, body, dt) ==
    /\ req = NoRequest
    /\ req' = Request(userId, topicParam, body)
    /\ TopicEffect(userId, topicParam, body, dt)
    /\ UNCHANGED stepVars

----------------------------------------------------------------------------
(* The lesson endpoint *)

\* questionId 'manual-lesson' of the synthetic record
ManualLesson == <<"manual-lesson", 0>>

OkResponse == [status |-> 200, path |-> "", completed |-> FALSE, id |-> None, totalXp |-> 0]

\* const xpIncrement = req.body.xpIncrement || 10: an absent and a zero
\* xpIncrement are both falsy
XpIncrement(body) ==
    IF body.xpIncrement = None \/ Val(body.xpIncrement) = 0 THEN 10
    ELSE Val(body.xpIncrement)

\* the user document after the handler's update; today is the midnight of
\* the first clock read, saveTime the second clock read
CompleteAggregate(user, xpIncrement, today, saveTime) ==
    LET newDay == \/ user.lastProgressDate = NoDate
                  \/ SetHoursZero(user.lastProgressDate) < today
    IN  [user EXCEPT
            !.streak = IF newDay THEN user.streak + 1 ELSE user.streak,
            !.dailyXP = IF newDay THEN xpIncrement ELSE user.dailyXP + xpIncrement,
            !.totalXP = user.totalXP + xpIncrement,
            !.lastProgressDate = saveTime]

CompleteRequest(userId, body) ==
    [kind |-> "complete", userId |-> userId, topic |-> "", body |-> body]

\* app.post('/api/progress/complete'): the user is saved first, the
\* synthetic Progress record is created after it; dt is the time that
\* passes between the handler's two clock reads
CompleteLesson(userId, body, dt) ==
    LET xpIncrement == XpIncrement(body)
        today == SetHoursZero(now)
        saveTime == now + dt
        doc == ApplySchema([userId |-> userId, questionId |-> ManualLesson,
                            xp |-> Some(xpIncrement), isCorrect |-> "true",
                            brains |-> Some(0), userAnswer |-> Some("completed"),
                            topic |-> "general", timestamp |-> saveTime], ProgressPaths)
    IN  /\ req = NoRequest
        /\ req' = CompleteRequest(userId, body)
        /\ users' = [users EXCEPT ![userId] =
                        CompleteAggregate(users[userId], xpIncrement, today, saveTime)]
        /\ now' = saveTime
        /\ progress' = InsertProgress(progress, doc)
        /\ createTopic' = Append(createTopic, "general")
        /\ response' = OkResponse
        /\ UNCHANGED <<questions, strictQuery, handlers, accounts, signups>>

----------------------------------------------------------------------------
(* The profile endpoints *)

\* app.get('/api/user'): the user document is read and sent
GetUser(userId) ==
    /\ req = NoRequest
    /\ req' = [kind |-> "getUser", userId |-> userId, topic |-> "", body |-> None]
    /\ response' = OkResponse
    /\ UNCHANGED <<users, progress, createTopic, questions, now, strictQuery,
                   handlers, accounts, signups>>

\* findByIdAndUpdate(id, update): the declared paths of the update replace
\* those of the document
FindByIdAndUpdate(user, update) ==
    LET set == ApplySchema(update, UserPaths)
    IN  [k \in DOMAIN user |-> IF k \in DOMAIN set THEN set[k] ELSE user[k]]

\* app.put('/api/user'): req.body is the update, as the client sent it
PutUser(userId, update) ==
    /\ req = NoRequest
    /\ req' = [kind |-> "putUser", userId |-> userId, topic |-> "", body |-> update]
    /\ users' = [users EXCEPT ![userId] = FindByIdAndUpdate(users[userId], update)]
    /\ response' = OkResponse
    /\ UNCHANGED <<progress, createTopic, questions, now, strictQuery,
                   handlers, accounts, signups>>

\* `data:image/${req.file.mimetype};base64,${req.file.buffer.toString('base64')}`
DataUrl(file) ==
    CASE file.mimetype = "image/png" -> "data:image/image/png;base64,AA=="
      [] OTHER -> "data:image/image/jpeg;base64,AA=="

\* app.post('/api/user/avatar'): file is req.file, absent when the upload
\* carried none
AvatarPost(userId, file) ==
    /\ req = NoRequest
    /\ req' = [kind |-> "avatar", userId |-> userId, topic |-> "", body |-> file]
    /\ IF file = None
       THEN /\ response' = ErrorResponse(400, "")
            /\ UNCHANGED users
       ELSE /\ users' = [users EXCEPT ![userId].avatar = DataUrl(Val(file))]
            /\ response' = OkResponse
    /\ UNCHANGED <<progress, createTopic, questions, now, strictQuery,
                   handlers, accounts, signups>>

----------------------------------------------------------------------------
(* The topic and lesson endpoints, step by step *)

\* usersModel.findById(id): the document, or null when there is none
FindById(userId) == IF userId \in DOMAIN users THEN Some(users[userId]) ELSE None

\* a save that adds to the stored xp what the handler added to its copy
SaveModified_Increment(stored, read, doc) ==
    [k \in DOMAIN stored |->
        IF k \in {"totalXP", "dailyXP"} THEN stored[k] + (doc[k] - read[k])
        ELSE IF doc[k] # read[k] THEN doc[k] ELSE stored[k]]

\* user.save(): the paths the handler changed since it read the document
\* are written over the stored document, the others are left as stored
SaveModified(stored, read, doc) ==
    [k \in DOMAIN stored |-> IF doc[k] # read[k] THEN doc[k] ELSE stored[k]]

\* the topic handler with the aggregate update ahead of Progress.create
TopicFlow_AggregateFirst(body) ==
    IF ~IsRecorded(body) THEN <<"select">>
    ELSE IF IsCorrectAnswer(body) THEN <<"find", "update", "save", "create", "select">>
    ELSE <<"create", "select">>

\* the steps of the topic handler after the validation, in the order of
\* its awaits
TopicFlow(body) ==
    IF ~IsRecorded(body) THEN <<"select">>
    ELSE IF IsCorrectAnswer(body) THEN <<"create", "find", "update", "save", "select">>
    ELSE <<"create", "select">>

\* the steps of the lesson handler, in the order of its awaits
CompleteFlow == <<"find", "update", "save", "create", "respond">>

Flow(h) == IF h.kind = "topic" THEN TopicFlow(h.body) ELSE CompleteFlow

\* a request that has arrived and of which no step is taken yet
NewHandler(kind, userId, topicParam, body) ==
    [kind |-> kind, userId |-> userId, topic |-> topicParam, body |-> body,
     at |-> 1, status |-> "running", read |-> None, doc |-> None,
     record |-> 0, saved |-> FALSE, response |-> NoResponse, days |-> {DayOf(now)}]

\* the handler is about to take the step
At(i, step) ==
    /\ handlers[i].status = "running"
    /\ handlers[i].at <= Len(Flow(handlers[i]))
    /\ Flow(handlers[i])[handlers[i].at] = step

\* the handler after one of its steps, taken now
Advance(h) == [h EXCEPT !.at = h.at + 1, !.days = h.days \cup {DayOf(now)}]

\* a catch block that sends the success response
CatchBlock_Success(h) ==
    [h EXCEPT !.status = "failed", !.response = OkResponse,
              !.days = h.days \cup {DayOf(now)}]

\* the catch block of the handler: the generic failure response, nothing
\* undone and nothing tried again
CatchBlock(h) ==
    [h EXCEPT !.status = "failed",
              !.response = ErrorResponse(500, IF h.kind = "topic" THEN "server" ELSE ""),
              !.days = h.days \cup {DayOf(now)}]

\* the request arrives at the topic endpoint and passes the validation
StartTopic(userId, topicParam, body) ==
    /\ ProgressValidation(body)
    /\ handlers' = Append(handlers, NewHandler("topic", userId, topicParam, body))
    /\ UNCHANGED <<users, progress, createTopic, questions, now, strictQuery,
                   req, response, accounts, signups>>

\* the request arrives at the lesson endpoint
StartComplete(userId, body) ==
    /\ handlers' = Append(handlers, NewHandler("complete", userId, "", body))
    /\ UNCHANGED <<users, progress, createTopic, questions, now, strictQuery,
                   req, response, accounts, signups>>

\* await Progress.create(...)
CreateStep(i) ==
    LET h == handlers[i]
        doc == IF h.kind = "topic"
               THEN [userId |-> h.userId, questionId |-> h.body.questionId,
                     xp |-> h.body.xp, isCorrect |-> h.body.isCorrect,
                     brains |-> h.body.brains, userAnswer |-> h.body.userAnswer,
                     topic |-> ToLowerCase(h.topic), timestamp |-> now]
               ELSE [userId |-> h.userId, questionId |-> ManualLesson,
                     xp |-> Some(XpIncrement(h.body)), isCorrect |-> "true",
                     brains |-> Some(0), userAnswer |-> Some("completed"),
                     topic |-> "general", timestamp |-> now]
    IN  /\ At(i, "create")
        /\ progress' = InsertProgress(progress, ApplySchema(doc, ProgressPaths))
        /\ createTopic' = Append(createTopic, doc.topic)
        /\ handlers' = [handlers EXCEPT ![i] =
                            [Advance(h) EXCEPT !.record = Len(progress) + 1]]
        /\ UNCHANGED <<users, questions, now, strictQuery, req, response,
                       accounts, signups>>

\* await usersModel.findById(req.userId); the handler dereferences the
\* result, so a null ends in the catch block
FindStep(i) ==
    LET h == handlers[i]
    IN  /\ At(i, "find")
        /\ handlers' = [handlers EXCEPT ![i] =
                            IF FindById(h.userId) = None THEN CatchBlock(h)
                            ELSE [Advance(h) EXCEPT !.read = FindById(h.userId)]]
        /\ UNCHANGED <<users, progress, createTopic, questions, now, strictQuery,
                       req, response, accounts, signups>>

\* the update makes totalXP NaN: the answer carries no xp
IsNaNUpdate(h) == h.kind = "topic" /\ h.body.xp = None

\* the synchronous update of the handler's copy of the user document
UpdateStep(i) ==
    LET h == handlers[i]
        user == Val(h.read)
        doc == IF h.kind = "complete"
               THEN CompleteAggregate(user, XpIncrement(h.body), SetHoursZero(now), now)
               ELSE IF IsNaNUpdate(h) THEN user
               ELSE UpdateAggregate(user, Val(h.body.xp), SetHoursZero(now), now)
    IN  /\ At(i, "update")
        /\ handlers' = [handlers EXCEPT ![i] = [Advance(h) EXCEPT !.doc = Some(doc)]]
        /\ UNCHANGED <<users, progress, createTopic, questions, now, strictQuery,
                       req, response, accounts, signups>>

\* await user.save() that succeeds
SaveStep(i) ==
    LET h == handlers[i]
    IN  /\ At(i, "save")
        /\ ~IsNaNUpdate(h)
        /\ users' = [users EXCEPT ![h.userId] =
                        SaveModified(users[h.userId], Val(h.read), Val(h.doc))]
        /\ handlers' = [handlers EXCEPT ![i] = [Advance(h) EXCEPT !.saved = TRUE]]
        /\ UNCHANGED <<progress, createTopic, questions, now, strictQuery,
                       req, response, accounts, signups>>

\* await user.save() that rejects: the document is invalid or the storage
\* fails
SaveFails(i) ==
    /\ At(i, "save")
    /\ handlers' = [handlers EXCEPT ![i] = CatchBlock(handlers[i])]
    /\ UNCHANGED <<users, progress, createTopic, questions, now, strictQuery,
                   req, response, accounts, signups>>

\* the question lookup, the session test and the selection; the response
\* is sent
SelectStep(i) ==
    LET h == handlers[i]
    IN  /\ At(i, "select")
        /\ \E r \in SelectResponses(h.userId, ToLowerCase(h.topic), h.body, progress) :
              handlers' = [handlers EXCEPT ![i] =
                              [Advance(h) EXCEPT !.status = "done", !.response = r]]
        /\ UNCHANGED <<users, progress, createTopic, questions, now, strictQuery,
                       req, response, accounts, signups>>

\* res.json({ message: 'Progress updated' })
RespondStep(i) ==
    LET h == handlers[i]
    IN  /\ At(i, "respond")
        /\ handlers' = [handlers EXCEPT ![i] =
                            [Advance(h) EXCEPT !.status = "done", !.response = OkResponse]]
        /\ UNCHANGED <<users, progress, createTopic, questions, now, strictQuery,
                       req, response, accounts, signups>>

\* the server process stops while the handler awaits its next step
Crash(i) ==
    /\ handlers[i].status = "running"
    /\ handlers' = [handlers EXCEPT ![i].status = "crashed"]
    /\ UNCHANGED <<users, progress, createTopic, questions, now, strictQuery,
                   req, response, accounts, signups>>

----------------------------------------------------------------------------
(* The signup endpoint, step by step *)

\* a collection without unique indexes
UniqueIndexViolations_None(coll, doc) == {}

\* the unique indexes of usersSchema (email, username) that an insert of
\* the document would violate
UniqueIndexViolations(coll, doc) ==
    {f \in {"email", "username"} : \E k \in DOMAIN coll : coll[k][f] = doc[f]}

\* usersModel.findOne({ $or: [{ email }, { username }] }): the positions
\* of the documents that match
FindOneByEmailOrUsername(coll, email, username) ==
    {k \in DOMAIN coll : coll[k].email = email \/ coll[k].username = username}

\* the request arrives at the signup endpoint and passes the validation
SignupStart(email, username) ==
    /\ signups' = Append(signups, [email |-> email, username |-> username,
                                   status |-> "check", checked |-> FALSE,
                                   response |-> NoResponse])
    /\ UNCHANGED <<users, progress, createTopic, questions, now, strictQuery,
                   req, response, handlers, accounts>>

\* await usersModel.findOne(...): an existing user ends the request with
\* 'already registered' on the field that matched
SignupCheck(i) ==
    LET h == signups[i]
        found == FindOneByEmailOrUsername(accounts, h.email, h.username)
    IN  /\ h.status = "check"
        /\ IF found = {}
           THEN signups' = [signups EXCEPT ![i].status = "create", ![i].checked = TRUE]
           ELSE \E k \in found :
                  signups' = [signups EXCEPT
                      ![i].status = "rejected",
                      ![i].response = ErrorResponse(400,
                          IF accounts[k].email = h.email THEN "email" ELSE "username")]
        /\ UNCHANGED <<users, progress, createTopic, questions, now, strictQuery,
                       req, response, handlers, accounts>>

\* await usersModel.create(...): a duplicate key error (code 11000) ends
\* the request with 'already registered' on the field of the index
SignupCreate(i) ==
    LET h == signups[i]
        doc == [email |-> h.email, username |-> h.username]
        violated == UniqueIndexViolations(accounts, doc)
    IN  /\ h.status = "create"
        /\ IF violated = {}
           THEN /\ accounts' = Append(accounts, doc)
                /\ signups' = [signups EXCEPT ![i].status = "created",
                                              ![i].response = OkResponse]
           ELSE /\ UNCHANGED accounts
                /\ \E f \in violated :
                      signups' = [signups EXCEPT ![i].status = "rejected",
                                                ![i].response = ErrorResponse(400, f)]
        /\ UNCHANGED <<users, progress, createTopic, questions, now, strictQuery,
                       req, response, handlers>>

----------------------------------------------------------------------------
(* Seeding *)

\* Question.countDocuments({ topic }) over a collection
CountDocuments(coll, topic) == Cardinality({q \in coll : q.topic = topic})

\* the seeding of every topic, whatever its count
SeedQuestions_IgnoresCount(coll) ==
    coll \cup
       {[id |-> QuestionId(Topics[p[1]], p[2]), topic |-> ToLowerCase(Topics[p[1]])] :
            p \in {p \in (DOMAIN Topics) \X (1..3) :
                      p[2] <= TopicTemplates(Topics[p[1]])}}

\* the Question collection after the loop of initializeQuestions: for each
\* topic whose count is zero, its templates are inserted, numbered from 1
SeedQuestions(coll) ==
    coll \cup
       {[id |-> QuestionId(Topics[p[1]], p[2]), topic |-> ToLowerCase(Topics[p[1]])] :
            p \in {p \in (DOMAIN Topics) \X (1..3) :
                      /\ CountDocuments(coll, Topics[p[1]]) = 0
                      /\ p[2] <= TopicTemplates(Topics[p[1]])}}

\* initializeQuestions
InitializeQuestions ==
    /\ req = NoRequest
    /\ questions' = SeedQuestions(questions)
    /\ UNCHANGED <<users, progress, createTopic, now, strictQuery, req, response,
                   handlers, accounts, signups>>

----------------------------------------------------------------------------
(* Environment *)

\* the client receives the response in flight
Receive ==
    /\ req # NoRequest
    /\ req' = NoRequest
    /\ response' = NoResponse
    /\ UNCHANGED <<users, progress, createTopic, questions, now, strictQuery,
                   handlers, accounts, signups>>

\* the wall clock advances
Tick ==
    /\ req = NoRequest
    /\ now < MaxClock
    /\ now' = now + 1
    /\ UNCHANGED <<users, progress, createTopic, questions, strictQuery, req, response,
                   handlers, accounts, signups>>

----------------------------------------------------------------------------
(* Specifications *)

Init ==
    /\ users = [u \in UserIds |-> NewUser]
    /\ progress = <<>>
    /\ createTopic = <<>>
    /\ questions = {}
    /\ now = 0
    /\ strictQuery \in BOOLEAN
    /\ req = NoRequest
    /\ response = NoResponse
    /\ handlers = <<>>
    /\ accounts = <<>>
    /\ signups = <<>>

\* request bodies the modelled clients send
XpValues == {None, Some(5)}
IsCorrectValues == {"true", "false", "null"}
QuestionIdValues == {None, QuestionId("electricity", 1), QuestionId("electricity", 2)}
QuestionNumberValues == {None, Some(9), Some(10)}
TopicParams == {"Electricity", "waves"}

Bodies ==
    [xp : XpValues, isCorrect : IsCorrectValues,
     questionId : {None, QuestionId("electricity", 1)},
     questionNumber : QuestionNumberValues, brains : {None}, userAnswer : {None}]

\* a request written to the Progress collection
Writes(body) == ProgressValidation(body) /\ IsRecorded(body)

\* the handler reads the clock a second time only on the aggregate path
Elapsed(body) == IF Writes(body) /\ IsCorrectAnswer(body) THEN {0, 1} ELSE {0}

Submit ==
    \E topicParam \in TopicParams, body \in Bodies :
      \E dt \in Elapsed(body) :
        /\ Writes(body) => Len(progress) < MaxProgress
        /\ now + dt <= MaxClock
        /\ TopicPost("u1", topicParam, body, dt)

Next == Submit \/ InitializeQuestions \/ Receive \/ Tick

Spec == Init /\ [][Next]_vars

\* clients that vary what the aggregate update depends on
AccrualBodies ==
    [xp : {None, Some(5), Some(7)}, isCorrect : IsCorrectValues,
     questionId : {None, QuestionId("electricity", 1)}, questionNumber : {None},
     brains : {None}, userAnswer : {None}]

AccrualSubmit ==
    \E body \in AccrualBodies :
      \E dt \in Elapsed(body) :
        /\ Writes(body) => Len(progress) < AccrualProgress
        /\ now + dt <= MaxClock
        /\ TopicPost("u1", "Electricity", body, dt)

AccrualNext == AccrualSubmit \/ InitializeQuestions \/ Receive \/ Tick

AccrualSpec == Init /\ [][AccrualNext]_vars

\* clients that vary what the question selection depends on
SelectBodies ==
    [xp : {None}, isCorrect : {"false", "null"},
     questionId : QuestionIdValues, questionNumber : QuestionNumberValues,
     brains : {None}, userAnswer : {None}]

SelectSubmit ==
    \E topicParam \in TopicParams, body \in SelectBodies :
        /\ Writes(body) => Len(progress) < SelectProgress
        /\ TopicPost("u1", topicParam, body, 0)

SelectNext == SelectSubmit \/ InitializeQuestions \/ Receive \/ Tick

SelectSpec == Init /\ [][SelectNext]_vars

\* the scenario's client: one user answering magnetism questions correctly,
\* no request being served across midnight
ScenarioBodies ==
    [xp : {Some(10), Some(5), Some(7)}, isCorrect : {"true"},
     questionId : {QuestionId("magnetism", n) : n \in 1..3}, questionNumber : {None},
     brains : {None}, userAnswer : {None}]

ScenarioSubmit ==
    \E body \in ScenarioBodies :
        /\ Len(progress) < ScenarioProgress
        /\ TopicPost("u1", "magnetism", body, 0)

ScenarioNext == ScenarioSubmit \/ InitializeQuestions \/ Receive \/ Tick

ScenarioSpec == Init /\ [][ScenarioNext]_vars

\* clients that send malformed bodies: fields of a wrong type, isCorrect
\* missing or of a wrong type, a negative questionNumber
ValidationBodies ==
    [xp : {Some(5), WrongType}, isCorrect : {"true", "undefined", "wrong type"},
     questionId : {QuestionId("electricity", 1), WrongType},
     questionNumber : {None, Some(-1)}, brains : {None},
     userAnswer : {None, WrongType}]

ValidationSubmit ==
    \E body \in ValidationBodies :
      \E dt \in Elapsed(body) :
        /\ Writes(body) => Len(progress) < ValidationProgress
        /\ now + dt <= MaxClock
        /\ TopicPost("u1", "Electricity", body, dt)

ValidationNext == ValidationSubmit \/ InitializeQuestions \/ Receive \/ Tick

ValidationSpec == Init /\ [][ValidationNext]_vars

\* clients that answer questions and complete lessons, with xp of either
\* sign and without
LessonBodies ==
    [xp : {Some(5), Some(-5)}, isCorrect : {"true", "false"},
     questionId : {QuestionId("electricity", 1)}, questionNumber : {None},
     brains : {None}, userAnswer : {None}]

LessonSubmit ==
    \E body \in LessonBodies :
      \E dt \in Elapsed(body) :
        /\ Len(progress) < LessonProgress
        /\ now + dt <= MaxClock
        /\ TopicPost("u1", "Electricity", body, dt)

CompleteBodies == [xpIncrement : {None, Some(0), Some(5), Some(-5)}]

CompleteSubmit ==
    \E body \in CompleteBodies, dt \in {0, 1} :
        /\ Len(progress) < LessonProgress
        /\ now + dt <= MaxClock
        /\ CompleteLesson("u1", body, dt)

LessonNext == LessonSubmit \/ CompleteSubmit \/ InitializeQuestions \/ Receive \/ Tick

LessonSpec == Init /\ [][LessonNext]_vars

\* one client answering correctly over several days, no request being
\* served across midnight
StreakBodies ==
    [xp : {Some(5)}, isCorrect : {"true"},
     questionId : {QuestionId("electricity", 1)}, questionNumber : {None},
     brains : {None}, userAnswer : {None}]

StreakSubmit ==
    \E body \in StreakBodies :
        /\ Len(progress) < StreakProgress
        /\ TopicPost("u1", "Electricity", body, 0)

\* the wall clock advances, up to the third day
StreakTick ==
    /\ req = NoRequest
    /\ now < StreakClock
    /\ now' = now + 1
    /\ UNCHANGED <<users, progress, createTopic, questions, strictQuery, req, response,
                   handlers, accounts, signups>>

StreakNext == StreakSubmit \/ InitializeQuestions \/ Receive \/ StreakTick

StreakSpec == Init /\ [][StreakNext]_vars

\* clients that use every endpoint that reads or writes a user document
ProfileBodies ==
    [xp : {Some(5)}, isCorrect : {"true", "false"},
     questionId : {QuestionId("electricity", 1)}, questionNumber : {None},
     brains : {None}, userAnswer : {None}]

\* updates sent to PUT /api/user: a new avatar, an undeclared path, and
\* aggregate fields
UserUpdates ==
    {[avatar |-> "data:,"], [admin |-> "yes"], [totalXP |-> 9],
     [streak |-> 7, dailyXP |-> 9, lastProgressDate |-> 0]}

Files == {None, Some([mimetype |-> "image/png"])}

ProfileSubmit ==
    \E body \in ProfileBodies :
      \E dt \in Elapsed(body) :
        /\ Len(progress) < ProfileProgress
        /\ now + dt <= MaxClock
        /\ TopicPost("u1", "Electricity", body, dt)

ProfileComplete ==
    \E dt \in {0, 1} :
        /\ Len(progress) < ProfileProgress
        /\ now + dt <= MaxClock
        /\ CompleteLesson("u1", [xpIncrement |-> Some(5)], dt)

ProfileNext ==
    \/ ProfileSubmit
    \/ ProfileComplete
    \/ GetUser("u1")
    \/ \E update \in UserUpdates : PutUser("u1", update)
    \/ \E file \in Files : AvatarPost("u1", file)
    \/ InitializeQuestions
    \/ Receive
    \/ Tick

ProfileSpec == Init /\ [][ProfileNext]_vars

\* clients that spell the topic with and without a capital letter
CaseParams == {"Electricity", "electricity"}

CaseBodies ==
    [xp : {Some(5)}, isCorrect : IsCorrectValues,
     questionId : QuestionIdValues, questionNumber : {None, Some(10)},
     brains : {None}, userAnswer : {None}]

CaseSubmit ==
    \E topicParam \in CaseParams, body \in CaseBodies :
      \E dt \in Elapsed(body) :
        /\ Writes(body) => Len(progress) < CaseProgress
        /\ now + dt <= MaxClock
        /\ TopicPost("u1", topicParam, body, dt)

CaseNext == CaseSubmit \/ InitializeQuestions \/ Receive \/ Tick

CaseSpec == Init /\ [][CaseNext]_vars

\* a Question collection in which magnetism has one question already
PartialSeed == {[id |-> QuestionId("magnetism", 1), topic |-> "magnetism"]}

\* the server starts on an empty database or on one that holds questions
SeedInit ==
    /\ users = [u \in UserIds |-> NewUser]
    /\ progress = <<>>
    /\ createTopic = <<>>
    /\ questions \in {{}, PartialSeed}
    /\ now = 0
    /\ strictQuery \in BOOLEAN
    /\ req = NoRequest
    /\ response = NoResponse
    /\ handlers = <<>>
    /\ accounts = <<>>
    /\ signups = <<>>

SeedSubmit ==
    \E topicParam \in {"magnetism", "Electricity"}, body \in SelectBodies :
        /\ Writes(body) => Len(progress) < SeedProgress
        /\ TopicPost("u1", topicParam, body, 0)

SeedNext == SeedSubmit \/ InitializeQuestions \/ Receive \/ Tick

SeedSpec == SeedInit /\ [][SeedNext]_vars

\* clients whose requests are served step by step and one after the other,
\* one of them with a token for a user that has no document, with failures
\* of the storage and of the server
StepBodies ==
    [xp : {None, Some(5)}, isCorrect : {"true", "false"},
     questionId : {QuestionId("electricity", 1)}, questionNumber : {None},
     brains : {None}, userAnswer : {None}]

StepStart ==
    /\ Len(handlers) < StepHandlers
    /\ \A i \in DOMAIN handlers : handlers[i].status # "running"
    /\ \/ \E userId \in {"u1", "u3"}, body \in StepBodies :
             StartTopic(userId, "Electricity", body)
       \/ \E userId \in {"u1", "u3"} :
             StartComplete(userId, [xpIncrement |-> Some(5)])

StepNext ==
    \/ StepStart
    \/ \E i \in DOMAIN handlers :
          \/ CreateStep(i)
          \/ FindStep(i)
          \/ UpdateStep(i)
          \/ SaveStep(i)
          \/ SaveFails(i)
          \/ SelectStep(i)
          \/ RespondStep(i)
          \/ Crash(i)
    \/ InitializeQuestions
    \/ Tick

StepSpec == Init /\ [][StepNext]_vars

\* requests of one user served concurrently within one instant of the
\* clock, without failures
RaceBodies ==
    [xp : {Some(5), Some(7)}, isCorrect : {"true"},
     questionId : {QuestionId("electricity", 1)}, questionNumber : {None},
     brains : {None}, userAnswer : {None}]

RaceStart ==
    /\ Len(handlers) < RaceHandlers
    /\ \E body \in RaceBodies : StartTopic("u1", "Electricity", body)

RaceNext ==
    \/ RaceStart
    \/ \E i \in DOMAIN handlers :
          \/ CreateStep(i)
          \/ FindStep(i)
          \/ UpdateStep(i)
          \/ SaveStep(i)
          \/ SelectStep(i)
    \/ InitializeQuestions

RaceSpec == Init /\ [][RaceNext]_vars

\* requests of one user over two days, at most two of them served at a
\* time, on a database without questions
StreakRaceBodies ==
    [xp : {Some(5)}, isCorrect : {"true"},
     questionId : {QuestionId("electricity", 1)}, questionNumber : {None},
     brains : {None}, userAnswer : {None}]

StreakRaceStart ==
    /\ Len(handlers) < StreakRaceHandlers
    /\ Cardinality({i \in DOMAIN handlers : handlers[i].status = "running"}) < 2
    /\ \E body \in StreakRaceBodies : StartTopic("u1", "Electricity", body)

StreakRaceNext ==
    \/ StreakRaceStart
    \/ \E i \in DOMAIN handlers :
          \/ CreateStep(i)
          \/ FindStep(i)
          \/ UpdateStep(i)
          \/ SaveStep(i)
          \/ SelectStep(i)
    \/ Tick

StreakRaceSpec == Init /\ [][StreakRaceNext]_vars

\* two clients that answer questions and complete lessons
IsolationBodies ==
    [xp : {Some(5)}, isCorrect : IsCorrectValues,
     questionId : QuestionIdValues, questionNumber : {None},
     brains : {None}, userAnswer : {None}]

IsolationSubmit ==
    \E userId \in UserIds, body \in IsolationBodies :
        /\ Writes(body) => Len(progress) < IsolationProgress
        /\ TopicPost(userId, "Electricity", body, 0)

IsolationComplete ==
    \E userId \in UserIds :
        /\ Len(progress) < IsolationProgress
        /\ CompleteLesson(userId, [xpIncrement |-> Some(5)], 0)

IsolationNext ==
    IsolationSubmit \/ IsolationComplete \/ InitializeQuestions \/ Receive \/ Tick

IsolationSpec == Init /\ [][IsolationNext]_vars

\* clients that sign up concurrently with the same and with different
\* emails and usernames
Emails == {"a@school.edu", "b@school.edu"}
Usernames == {"ann", "bob"}

SignupNext ==
    \/ /\ Len(signups) < SignupHandlers
       /\ \E email \in Emails, username \in Usernames : SignupStart(email, username)
    \/ \E i \in DOMAIN signups : SignupCheck(i) \/ SignupCreate(i)

SignupSpec == Init /\ [][SignupNext]_vars

----------------------------------------------------------------------------
(* Vocabulary of the properties *)

\* a step in which the topic endpoint serves a request
Served == req = NoRequest /\ req' # NoRequest

\* the request in flight is a skip: isCorrect null, or no questionId
IsSkip(r) == r.body.isCorrect = "null" \/ r.body.questionId = None

\* the request in flight carries a verdict, a question id and an xp number
IsAnswer(r, verdict) ==
    r.body.isCorrect = verdict /\ r.body.questionId # None /\ r.body.xp # None

\* the request in flight got as far as the question selection: its recording
\* part did not end in the catch block
ReachedSelection(r) ==
    ~(r.body.isCorrect = "true" /\ r.body.questionId # None /\ r.body.xp = None)

\* ids of the stored questions of a topic
TopicQuestionIds(topic) == {q.id : q \in {x \in questions : x.topic = topic}}

\* question ids the user submitted to a topic in recorded answers
AnsweredIn(userId, topic) ==
    {progress[i].questionId :
        i \in {j \in DOMAIN progress :
                 progress[j].userId = userId /\ createTopic[j] = topic}}

RequestedTopic == ToLowerCase(req.topic)

RequestedNumber ==
    IF req.body.questionNumber = None THEN 0 ELSE req.body.questionNumber[1]

----------------------------------------------------------------------------
(* Properties of the aggregate update *)

\* C1: a submission whose isCorrect is null or whose questionId is absent
\* creates no Progress record and leaves every user's streak, dailyXP,
\* totalXP and lastProgressDate as they were.
C1_SkipNoOp ==
    [][(Served /\ IsSkip(req')) => (progress' = progress /\ users' = users)]_vars

\* a skip that carries a verdict and xp but no question id, served for a
\* user who already has progress
C1_Witness ==
    /\ req # NoRequest
    /\ req.body.isCorrect = "true"
    /\ req.body.questionId = None
    /\ req.body.xp # None
    /\ response.status \in {200, 404}
    /\ progress # <<>>

\* C2: for a user whose lastProgressDate is null or on a calendar day before
\* today, a correct recorded submission with xp X adds one to streak, sets
\* dailyXP to X, adds X to totalXP and stamps lastProgressDate with the time
\* of the update.
C2_NewDay ==
    [][(/\ Served
        /\ IsAnswer(req', "true")
        /\ \/ users[req'.userId].lastProgressDate = NoDate
           \/ DayOf(users[req'.userId].lastProgressDate) < DayOf(now))
       => LET before == users[req'.userId]
              after == users'[req'.userId]
              X == req'.body.xp[1]
          IN  /\ after.streak = before.streak + 1
              /\ after.dailyXP = X
              /\ after.totalXP = before.totalXP + X
              /\ after.lastProgressDate = now']_vars

\* a correct answer on the day after an earlier correct answer: the streak
\* reached 2 and dailyXP is the new xp alone
C2_Witness ==
    /\ req # NoRequest
    /\ IsAnswer(req, "true")
    /\ users[req.userId].streak = 2
    /\ users[req.userId].dailyXP = req.body.xp[1]
    /\ users[req.userId].totalXP > users[req.userId].dailyXP
    /\ users[req.userId].lastProgressDate = now

\* C3: for a user whose lastProgressDate is on today's calendar day, a
\* correct recorded submission with xp X leaves streak as it was, adds X to
\* dailyXP and to totalXP and stamps lastProgressDate.
C3_SameDay ==
    [][(/\ Served
        /\ IsAnswer(req', "true")
        /\ users[req'.userId].lastProgressDate # NoDate
        /\ DayOf(users[req'.userId].lastProgressDate) = DayOf(now))
       => LET before == users[req'.userId]
              after == users'[req'.userId]
              X == req'.body.xp[1]
          IN  /\ after.streak = before.streak
              /\ after.dailyXP = before.dailyXP + X
              /\ after.totalXP = before.totalXP + X
              /\ after.lastProgressDate = now']_vars

\* a second correct answer on one day: streak still 1, dailyXP holds both
C3_Witness ==
    /\ req # NoRequest
    /\ IsAnswer(req, "true")
    /\ Len(progress) = 2
    /\ DayOf(progress[1].timestamp) = DayOf(progress[2].timestamp)
    /\ users[req.userId].streak = 1
    /\ users[req.userId].dailyXP > req.body.xp[1]
    /\ users[req.userId].dailyXP = users[req.userId].totalXP

\* C4: a recorded submission with isCorrect false adds exactly one Progress
\* record and leaves every user's aggregate fields as they were.
C4_IncorrectNoAggregate ==
    [][(Served /\ req'.body.isCorrect = "false" /\ req'.body.questionId # None)
       => /\ Len(progress') = Len(progress) + 1
          /\ SubSeq(progress', 1, Len(progress)) = progress
          /\ progress'[Len(progress')].isCorrect = "false"
          /\ users' = users]_vars

\* an incorrect answer recorded for a user who has earned xp before
C4_Witness ==
    /\ req # NoRequest
    /\ req.body.isCorrect = "false"
    /\ req.body.questionId # None
    /\ req.body.xp # None
    /\ Len(progress) = 2
    /\ progress[2].isCorrect = "false"
    /\ users[req.userId].totalXP > 0

\* C5: from a fresh user, correct answers worth 10, then 5 on the same day,
\* then 7 on the next calendar day leave (streak, dailyXP, totalXP) at
\* (1, 10, 10), then (1, 15, 15), then (2, 7, 22).
C5_Scenario ==
    LET u == users["u1"]
        Xp(i) == progress[i].xp[1]
        Day(i) == DayOf(progress[i].timestamp)
        Mine == \A i \in DOMAIN progress :
                    progress[i].userId = "u1" /\ progress[i].isCorrect = "true"
        Aggregate(st, d, t) == u.streak = st /\ u.dailyXP = d /\ u.totalXP = t
    IN  /\ (Mine /\ Len(progress) = 1 /\ Xp(1) = 10) => Aggregate(1, 10, 10)
        /\ (Mine /\ Len(progress) = 2 /\ Xp(1) = 10 /\ Xp(2) = 5 /\ Day(2) = Day(1))
               => Aggregate(1, 15, 15)
        /\ (Mine /\ Len(progress) = 3 /\ Xp(1) = 10 /\ Xp(2) = 5 /\ Xp(3) = 7
                 /\ Day(2) = Day(1) /\ Day(3) = Day(1) + 1)
               => Aggregate(2, 7, 22)

\* the scenario's third answer has been served
C5_Witness ==
    /\ Len(progress) = 3
    /\ progress[1].xp = <<10>> /\ progress[2].xp = <<5>> /\ progress[3].xp = <<7>>
    /\ DayOf(progress[1].timestamp) = DayOf(progress[2].timestamp)
    /\ DayOf(progress[3].timestamp) = DayOf(progress[1].timestamp) + 1
    /\ users["u1"].streak = 2
    /\ users["u1"].lastProgressDate = progress[3].timestamp

----------------------------------------------------------------------------
(* Properties of the question selection *)

\* C6: whenever the topic has a question the user has not answered, the
\* question returned belongs to the topic and is not among the questions
\* the user has answered for that topic, the one submitted in the same
\* request included.
C6_ExcludesAnswered ==
    (/\ req # NoRequest
     /\ response.id # None
     /\ TopicQuestionIds(RequestedTopic) \ AnsweredIn(req.userId, RequestedTopic) # {})
    => /\ response.id[1] \in TopicQuestionIds(RequestedTopic)
       /\ response.id[1] \notin AnsweredIn(req.userId, RequestedTopic)

\* C7: when the user has answered every question of a non-empty topic, the
\* selection does not fail but returns a question of that topic.
C7_DeckReset ==
    (/\ req # NoRequest
     /\ ReachedSelection(req)
     /\ RequestedNumber < 10
     /\ TopicQuestionIds(RequestedTopic) # {}
     /\ TopicQuestionIds(RequestedTopic) \subseteq AnsweredIn(req.userId, RequestedTopic))
    => /\ response.status = 200
       /\ response.id # None
       /\ response.id[1] \in TopicQuestionIds(RequestedTopic)

\* both electricity questions answered, and one of them handed out again
C7_Witness ==
    /\ req # NoRequest
    /\ RequestedTopic = "electricity"
    /\ Cardinality(TopicQuestionIds("electricity")) = 2
    /\ AnsweredIn(req.userId, "electricity") = TopicQuestionIds("electricity")
    /\ response.status = 200
    /\ response.id # None
    /\ response.id[1] \in AnsweredIn(req.userId, "electricity")

\* C8: for a topic that has questions, a request with questionNumber >= 10
\* that reaches the selection gets the completed signal and no question,
\* however many questions remain unanswered.
C8_SessionTerminal ==
    (/\ req # NoRequest
     /\ ReachedSelection(req)
     /\ RequestedNumber >= 10
     /\ TopicQuestionIds(RequestedTopic) # {})
    => /\ response.status = 200
       /\ response.completed
       /\ response.id = None

\* the completed signal sent while no question of the topic is answered
C8_Witness ==
    /\ req # NoRequest
    /\ RequestedNumber = 10
    /\ TopicQuestionIds(RequestedTopic) # {}
    /\ AnsweredIn(req.userId, RequestedTopic) = {}
    /\ response.completed

\* C9 as stated: a request with questionNumber >= 10 gets the completed
\* signal whatever the topic's question set is, an empty one included.
C9_SessionBeforeLookup ==
    (req # NoRequest /\ ReachedSelection(req) /\ RequestedNumber >= 10)
    => response.completed

\* C9 as the code has it: the question lookup comes first, so a request with
\* questionNumber >= 10 to a topic without questions gets NotFound, not the
\* completed signal.
C9_LookupBeforeSession ==
    (/\ req # NoRequest
     /\ ReachedSelection(req)
     /\ RequestedNumber >= 10
     /\ TopicQuestionIds(RequestedTopic) = {})
    => /\ response.status = 404
       /\ response.path = "questions"
       /\ ~response.completed

\* questionNumber 10 sent to a topic without questions while other topics
\* are seeded
C9_Witness ==
    /\ req # NoRequest
    /\ RequestedNumber = 10
    /\ questions # {}
    /\ TopicQuestionIds(RequestedTopic) = {}
    /\ response.status = 404

\* C10: a request with questionNumber < 10 to a topic with no stored
\* question fails with 404 on path 'questions' and carries no question.
C10_NotFound ==
    (/\ req # NoRequest
     /\ ReachedSelection(req)
     /\ RequestedNumber < 10
     /\ TopicQuestionIds(RequestedTopic) = {})
    => /\ response.status = 404
       /\ response.path = "questions"
       /\ response.id = None
       /\ ~response.completed

\* questionNumber 9 sent to a topic without questions while other topics
\* are seeded
C10_Witness ==
    /\ req # NoRequest
    /\ RequestedNumber = 9
    /\ questions # {}
    /\ TopicQuestionIds(RequestedTopic) = {}
    /\ response.status = 404
    /\ response.id = None

----------------------------------------------------------------------------
(* Properties of the validation *)

\* the fields of a body that make it malformed: a value of a wrong type, no
\* isCorrect or one that is neither a boolean nor null, a negative
\* questionNumber
MalformedFields(body) ==
    {f \in {"xp", "questionId", "userAnswer"} : body[f] = WrongType}
    \cup (IF body.isCorrect \in {"undefined", "wrong type"} THEN {"isCorrect"} ELSE {})
    \cup (IF body.questionNumber \notin {None, WrongType} /\ body.questionNumber[1] < 0
          THEN {"questionNumber"} ELSE {})

\* C11: a malformed submission to the topic endpoint (a field of a wrong
\* type, isCorrect missing, a negative questionNumber) is answered with 400
\* and the path of a malformed field, writes no Progress record and changes
\* no user.
C11_ValidationPrecedesMutation ==
    [][(Served /\ req'.kind = "topic" /\ MalformedFields(req'.body) # {})
       => /\ response'.status = 400
          /\ response'.path \in MalformedFields(req'.body)
          /\ progress' = progress
          /\ users' = users]_vars

\* an answer that is well formed but for its negative questionNumber,
\* rejected for a user whose earlier answer was recorded
C11_Witness ==
    /\ req # NoRequest
    /\ req.body.isCorrect = "true"
    /\ req.body.xp = <<5>>
    /\ req.body.questionId = QuestionId("electricity", 1)
    /\ req.body.userAnswer = None
    /\ req.body.questionNumber = <<-1>>
    /\ response.status = 400
    /\ response.path = "questionNumber"
    /\ Len(progress) = 1
    /\ users[req.userId].totalXP = 5

----------------------------------------------------------------------------
(* Properties of the aggregates *)

\* C12: whatever the user's lastProgressDate, the instant and the xp value
\* X, completeLesson(X) leaves the streak, dailyXP, totalXP and
\* lastProgressDate that a correct recordAnswer with xp X leaves: on a new
\* day streak + 1 and dailyXP X, on the same day dailyXP + X, always
\* totalXP + X and the time of the update.
C12_SameAsRecordAnswer ==
    [][(Served /\ req'.kind = "complete" /\ req'.body.xpIncrement # None)
       => LET before == users[req'.userId]
              after == users'[req'.userId]
              X == req'.body.xpIncrement[1]
              newDay == \/ before.lastProgressDate = NoDate
                        \/ DayOf(before.lastProgressDate) < DayOf(now)
          IN  /\ after.streak = before.streak + (IF newDay THEN 1 ELSE 0)
              /\ after.dailyXP = IF newDay THEN X ELSE before.dailyXP + X
              /\ after.totalXP = before.totalXP + X
              /\ after.lastProgressDate = now']_vars

\* calendar days on which the user has a correct Progress record
CorrectDays(userId) ==
    {DayOf(progress[i].timestamp) :
        i \in {j \in DOMAIN progress :
                 progress[j].userId = userId /\ progress[j].isCorrect = "true"}}

\* length of the run of consecutive days of the set that ends at day d
RunEndingAt(days, d) == Cardinality({k \in 0..d : \A j \in k..d : j \in days})

\* C13: a user's streak is the number of consecutive calendar days, ending
\* at the day of lastProgressDate, on which the user answered correctly; a
\* day without a correct answer breaks the count.
C13_StreakIsRun ==
    \A u \in UserIds :
        users[u].streak =
            IF users[u].lastProgressDate = NoDate THEN 0
            ELSE RunEndingAt(CorrectDays(u), DayOf(users[u].lastProgressDate))

\* sum of the xp of the Progress records at the given positions
RECURSIVE SumXp(_)
SumXp(positions) ==
    IF positions = {} THEN 0
    ELSE LET i == CHOOSE j \in positions : TRUE
         IN  (IF progress[i].xp = None THEN 0 ELSE progress[i].xp[1])
             + SumXp(positions \ {i})

\* positions of the user's correct Progress records dated on a day
CorrectOn(userId, day) ==
    {i \in DOMAIN progress :
        /\ progress[i].userId = userId
        /\ progress[i].isCorrect = "true"
        /\ DayOf(progress[i].timestamp) = day}

\* C14: a user's dailyXP is the sum of the xp of the correct events dated on
\* the calendar day of lastProgressDate, so it holds no xp of an earlier day.
C14_DailyXPOfTheDay ==
    \A u \in UserIds :
        users[u].dailyXP =
            IF users[u].lastProgressDate = NoDate THEN 0
            ELSE SumXp(CorrectOn(u, DayOf(users[u].lastProgressDate)))

\* C15: every user's totalXP and streak are non-negative integers.
C15_NonNegative ==
    \A u \in UserIds : users[u].totalXP \in Nat /\ users[u].streak \in Nat

\* the aggregate fields of a user document
Aggregates(user) == <<user.streak, user.dailyXP, user.totalXP, user.lastProgressDate>>

\* C16: a user's streak, dailyXP, totalXP and lastProgressDate change only
\* in a step that serves that user's correct recorded answer or completed
\* lesson, and no step removes a user.
C16_AggregateOwnership ==
    [][/\ DOMAIN users' = DOMAIN users
       /\ \A u \in UserIds :
            Aggregates(users'[u]) # Aggregates(users[u])
            => /\ Served
               /\ req'.userId = u
               /\ \/ req'.kind = "complete"
                  \/ /\ req'.kind = "topic"
                     /\ req'.body.isCorrect = "true"
                     /\ req'.body.questionId # None]_vars

----------------------------------------------------------------------------
(* Properties of topics, seeding and the Progress log *)

\* C17: every Progress record written by the topic endpoint carries the
\* lowercase topic of its request, so that the answered set of a topic is
\* read from the records of that topic alone.
C17_RecordsCarryTopic ==
    \A i \in DOMAIN progress :
        "topic" \in DOMAIN progress[i] /\ progress[i].topic = createTopic[i]

\* spellings of one topic that differ in letter case only
CaseVariants == {"Electricity", "electricity"}

\* C18: a request whose topic segment is spelt in another letter case has
\* the same effect: the same record under the same lowercase topic, the
\* same aggregate update, and a response chosen from the same questions
\* less the same answered set.
C18_CaseInsensitive ==
    [][(Served /\ req'.kind = "topic" /\ req'.topic \in CaseVariants)
       => /\ \A topicParam \in CaseVariants :
                TopicEffect(req'.userId, topicParam, req'.body, now' - now)
          /\ Len(createTopic') > Len(createTopic)
                => createTopic'[Len(createTopic')] = "electricity"]_vars

\* a question handed out to a capitalised request that recorded an answer
C18_Witness ==
    /\ req # NoRequest
    /\ req.topic = "Electricity"
    /\ req.body.questionId # None
    /\ req.body.isCorrect = "false"
    /\ Len(progress) = 1
    /\ createTopic = <<"electricity">>
    /\ response.id # None

\* C19: the seeder inserts questions only for topics that had none, with
\* ids '{topic}-q{n}' numbered from 1 and the lowercase topic label; after
\* it, ids are unique and another run would insert nothing.
C19_SeederIdempotent ==
    [][questions' # questions
       => LET inserted == questions' \ questions
          IN  /\ questions \subseteq questions'
              /\ \A q \in inserted :
                    /\ {x \in questions : x.topic = q.topic} = {}
                    /\ q.topic \in {"magnetism", "electricity", "waves"}
                    /\ \E n \in 1..3 : q.id = <<q.topic, n>>
                    /\ q.id[2] > 1 => \E x \in inserted : x.id = <<q.topic, q.id[2] - 1>>
              /\ Cardinality({q.id : q \in questions'}) = Cardinality(questions')
              /\ SeedQuestions(questions') = questions']_vars

\* the seeder has run on a collection that held one magnetism question: the
\* electricity templates are inserted, magnetism is as it was
C19_Witness ==
    /\ {q.id : q \in {x \in questions : x.topic = "magnetism"}} = {QuestionId("magnetism", 1)}
    /\ Cardinality({x \in questions : x.topic = "electricity"}) = 2

\* C20: no step modifies or removes a Progress record: the collection
\* before a step is a prefix of the collection after it.
C20_AppendOnly ==
    [][/\ Len(progress') >= Len(progress)
       /\ \A i \in DOMAIN progress : progress'[i] = progress[i]]_vars

\* a lesson record followed by an answer record, after a profile update
C20_Witness ==
    /\ Len(progress) = 2
    /\ progress[1].questionId = ManualLesson
    /\ progress[2].questionId = QuestionId("electricity", 1)
    /\ users["u1"].avatar # ""

----------------------------------------------------------------------------
(* Properties of the order of the steps *)

\* the Progress record that the handler created for its request is stored
HasRecord(h, coll) ==
    /\ h.record \in DOMAIN coll
    /\ coll[h.record].userId = h.userId
    /\ coll[h.record].questionId =
           (IF h.kind = "topic" THEN h.body.questionId ELSE <<"manual-lesson", 0>>)

\* the handler takes a step
Steps(i) == handlers'[i] # handlers[i]

\* C21: in the topic endpoint the Progress record is written before the
\* user is read and saved: whenever a step changes a user's aggregates for
\* an answer, that answer's Progress record is already stored.
C21_RecordBeforeAggregate ==
    [][/\ users' # users
          => \E i \in DOMAIN handlers :
                /\ Steps(i)
                /\ handlers[i].kind = "topic" => HasRecord(handlers[i], progress)
       /\ \A i \in DOMAIN handlers' :
             (handlers'[i].kind = "topic" /\ handlers'[i].saved)
             => HasRecord(handlers'[i], progress')]_vars

\* the reverse state: the server stopped after a correct answer with xp
\* was recorded and before its user was saved
C21_Witness ==
    /\ Len(handlers) = 1
    /\ handlers[1].kind = "topic"
    /\ handlers[1].status = "crashed"
    /\ handlers[1].body.isCorrect = "true"
    /\ handlers[1].body.xp = <<5>>
    /\ HasRecord(handlers[1], progress)
    /\ users["u1"].totalXP = 0
    /\ users["u1"].lastProgressDate = NoDate

\* C22: the lesson endpoint writes its synthetic Progress record before it
\* updates the user, so a request that stopped between the two steps never
\* leaves the aggregates increased without the record.
C22_LessonRecordFirst ==
    \A i \in DOMAIN handlers :
        (/\ handlers[i].kind = "complete"
         /\ handlers[i].status \in {"crashed", "failed"}
         /\ handlers[i].saved)
        => HasRecord(handlers[i], progress)

\* C29: when the aggregate step of a correct recorded submission fails (no
\* user document, or a save that rejects), the request ends with the
\* generic failure response and no question, its Progress record stays,
\* the aggregates keep their values, and the request does nothing more.
C29_AggregateStepFailure ==
    [][\A i \in DOMAIN handlers :
          /\ (/\ handlers[i].kind = "topic"
              /\ handlers[i].status = "running"
              /\ handlers'[i].status = "failed")
             => /\ handlers'[i].response.status = 500
                /\ handlers'[i].response.path = "server"
                /\ handlers'[i].response.id = None
                /\ HasRecord(handlers[i], progress')
                /\ progress' = progress
                /\ users' = users
                /\ ~handlers'[i].saved
          /\ handlers[i].status = "failed" => ~Steps(i)]_vars

\* a correct answer with xp whose save was rejected: the record is stored,
\* the user is as before
C29_Witness ==
    /\ Len(handlers) = 1
    /\ handlers[1].kind = "topic"
    /\ handlers[1].status = "failed"
    /\ handlers[1].userId = "u1"
    /\ handlers[1].body.xp = <<5>>
    /\ handlers[1].read # None
    /\ handlers[1].response.status = 500
    /\ HasRecord(handlers[1], progress)
    /\ users["u1"].totalXP = 0

----------------------------------------------------------------------------
(* Properties of concurrent requests *)

\* the handler saves the user in this step
Saves(i) == ~handlers[i].saved /\ handlers'[i].saved

\* C24: when two correct submissions of one user both read the user before
\* either saved, the save of the second leaves totalXP and dailyXP grown by
\* one of the two xp values only, although both Progress records exist.
C24_LostUpdate ==
    [][\A i, j \in DOMAIN handlers :
          (/\ i # j
           /\ Saves(i)
           /\ handlers[j].saved
           /\ handlers[j].userId = handlers[i].userId
           /\ handlers[j].read = handlers[i].read)
          => LET base == handlers[i].read[1]
                 after == users'[handlers[i].userId]
                 Xi == handlers[i].body.xp[1]
                 Xj == handlers[j].body.xp[1]
             IN  /\ after.totalXP = base.totalXP + Xi
                 /\ after.dailyXP \in {base.dailyXP + Xi, base.dailyXP + Xj}
                 /\ HasRecord(handlers[i], progress')
                 /\ HasRecord(handlers[j], progress')]_vars

\* two answers worth 7 and 5 served to the end, both recorded, and the
\* user's totalXP and dailyXP hold one of the two only
C24_Witness ==
    /\ Len(handlers) = 2
    /\ handlers[1].status = "done" /\ handlers[2].status = "done"
    /\ handlers[1].body.xp = <<7>> /\ handlers[2].body.xp = <<5>>
    /\ handlers[1].read = handlers[2].read
    /\ Len(progress) = 2
    /\ users["u1"].totalXP \in {5, 7}
    /\ users["u1"].dailyXP \in {5, 7}

\* calendar days on which a step of some request was taken
ProcessingDays == UNION {handlers[i].days : i \in DOMAIN handlers}

\* C25: whatever the interleaving of one user's concurrent correct
\* submissions, the streak has grown by no more than the number of distinct
\* calendar days on which the requests were processed.
C25_StreakOncePerDay ==
    users["u1"].streak <= Cardinality(ProcessingDays)

\* two signup requests claim the same email or the same username
Clash(a, b) == a.email = b.email \/ a.username = b.username

\* C30: no two users created by signup share an email or a username,
\* whatever the interleaving; of two signups with the same email or
\* username that both passed the existence check, at most one creates a
\* user and the other is answered 'already registered' on that field.
C30_SignupUnique ==
    /\ \A k, l \in DOMAIN accounts : k # l => ~Clash(accounts[k], accounts[l])
    /\ \A i, j \in DOMAIN signups :
          (/\ i # j
           /\ signups[i].checked /\ signups[j].checked
           /\ Clash(signups[i], signups[j])
           /\ signups[i].status = "created")
          => /\ signups[j].status # "created"
             /\ signups[j].status = "rejected"
                   => /\ signups[j].response.status = 400
                      /\ signups[j].response.path \in {"email", "username"}

\* two signups with the same email both passed the check; one created the
\* user, the other was rejected on the email
C30_Witness ==
    /\ Len(accounts) = 1
    /\ \E i, j \in DOMAIN signups :
          /\ i # j
          /\ signups[i].email = signups[j].email
          /\ signups[i].username # signups[j].username
          /\ signups[i].checked /\ signups[j].checked
          /\ signups[i].status = "created"
          /\ signups[j].status = "rejected"
          /\ signups[j].response.path = "email"

----------------------------------------------------------------------------
(* Properties of the recording *)

\* the answer in flight is recorded: it carries a verdict and a question id
IsNonSkip(r) == r.kind = "topic" /\ r.body.isCorrect # "null" /\ r.body.questionId # None

\* the step appends the record of the answer in flight
Recorded ==
    /\ Len(progress') = Len(progress) + 1
    /\ \A i \in DOMAIN progress : progress'[i] = progress[i]
    /\ progress'[Len(progress')].userId = req'.userId
    /\ progress'[Len(progress')].questionId = req'.body.questionId
    /\ progress'[Len(progress')].isCorrect = req'.body.isCorrect

\* the step adds the xp of the answer in flight to its user's totalXP and
\* stamps lastProgressDate
AggregatesUpdated ==
    /\ users'[req'.userId].totalXP = users[req'.userId].totalXP + req'.body.xp[1]
    /\ users'[req'.userId].lastProgressDate = now'
    /\ users'[req'.userId].streak >= users[req'.userId].streak

\* C23: a recorded submission with questionNumber >= 10 is still recorded:
\* its Progress record is written and, when it is correct, the aggregates
\* are updated before the completed signal is sent.
C23_RecordedAtSessionEnd ==
    [][(/\ Served
        /\ IsNonSkip(req')
        /\ req'.body.questionNumber # None
        /\ req'.body.questionNumber[1] >= 10)
       => /\ Recorded
          /\ (response'.completed /\ req'.body.isCorrect = "true") => AggregatesUpdated]_vars

\* the completed signal sent for a correct answer that was recorded and
\* credited in the same request
C23_Witness ==
    /\ req # NoRequest
    /\ req.body.questionNumber = <<10>>
    /\ req.body.isCorrect = "true"
    /\ response.completed
    /\ Len(progress) = 1
    /\ progress[1].questionId = req.body.questionId
    /\ users[req.userId].totalXP = 5

\* C28: a recorded submission to a topic without questions still writes
\* its Progress record, and updates the aggregates when it is correct,
\* before NotFound is sent.
C28_NotFoundHasEffects ==
    [][(Served /\ IsNonSkip(req') /\ response'.status = 404)
       => /\ Recorded
          /\ req'.body.isCorrect = "true" => AggregatesUpdated]_vars

\* NotFound sent for a correct answer to a topic without questions, with
\* the record written and the xp credited
C28_Witness ==
    /\ req # NoRequest
    /\ req.topic = "waves"
    /\ req.body.isCorrect = "true"
    /\ response.status = 404
    /\ response.path = "questions"
    /\ Len(progress) = 1
    /\ users[req.userId].totalXP = 5
    /\ users[req.userId].streak = 1

\* positions of the user's Progress records with isCorrect true
CorrectOf(userId) ==
    {i \in DOMAIN progress :
        progress[i].userId = userId /\ progress[i].isCorrect = "true"}

\* C26: after requests served one after the other, each with a numeric xp,
\* a user's totalXP is the sum of the xp of that user's Progress records
\* with isCorrect true.
C26_XpAccounting ==
    \A u \in UserIds : users[u].totalXP = SumXp(CorrectOf(u))

\* a lesson and a correct answer, both credited
C26_Witness ==
    /\ Len(progress) = 2
    /\ progress[1].questionId = ManualLesson
    /\ progress[2].questionId = QuestionId("electricity", 1)
    /\ progress[2].isCorrect = "true"
    /\ users["u1"].totalXP = progress[1].xp[1] + progress[2].xp[1]
    /\ users["u1"].totalXP # 0

\* the user's Progress records, in order
RecordsOf(userId, coll) == SelectSeq(coll, LAMBDA d : d.userId = userId)

\* a request for the next question that submits nothing
NextQuestionBody ==
    [xp |-> None, isCorrect |-> "null", questionId |-> None, questionNumber |-> None,
     brains |-> None, userAnswer |-> None]

\* C27: an answer or a completed lesson of one user changes no other
\* user's aggregates or Progress records, and for no topic the questions
\* that may be returned to another user.
C27_CrossUserIsolation ==
    [][(Served /\ req'.kind \in {"topic", "complete"})
       => \A v \in UserIds \ {req'.userId} :
             /\ users'[v] = users[v]
             /\ RecordsOf(v, progress') = RecordsOf(v, progress)
             /\ \A topic \in {"magnetism", "electricity", "waves"} :
                   SelectResponses(v, topic, NextQuestionBody, progress')
                   = SelectResponses(v, topic, NextQuestionBody, progress)]_vars

\* a question sent to one user after the other user answered one
C27_Witness ==
    /\ req # NoRequest
    /\ req.kind = "topic"
    /\ req.userId = "u2"
    /\ response.id # None
    /\ Len(progress) = 2
    /\ progress[1].userId = "u1"
    /\ progress[2].userId = "u2"
    /\ users["u1"].totalXP = 5

====
